---- MODULE Spec2Model ----
(***************************************************************************)
(* A model of tokio-jsonrpc's src/server.rs: the Server trait and its      *)
(* default callbacks, the Empty server, the AbstractServer wrapper, the    *)
(* ServerChain, and the jsonrpc_params! parameter decoding macro.          *)
(***************************************************************************)
EXTENDS Integers, Sequences, FiniteSets, TLC

(***************************************************************************)
(* Bounds of the model.                                                    *)
(***************************************************************************)
\* longest ServerChain constructed
MaxChain == 3
\* number of callbacks made on the constructed server
MaxCalls == 2
\* longest JSON array handed to the parameter decoding
MaxArrayLen == 3
\* most keys of a JSON object handed to the parameter decoding
MaxKeys == 3
\* most messages received on the connection of the example server
MaxFrames == 3

(***************************************************************************)
(* serde_json::Value, Option<Value>, and the typed Rust values of the      *)
(* servers' Success types.                                                 *)
(***************************************************************************)
JNull == [t |-> "Null"]
JBool(b) == [t |-> "Bool", b |-> b]
JNumber(n) == [t |-> "Number", n |-> n]
JString(s) == [t |-> "String", s |-> s]
JArray(a) == [t |-> "Array", a |-> a]
JObject(o) == [t |-> "Object", o |-> o]

NoneP == [t |-> "None"]
SomeP(v) == [t |-> "Some", v |-> v]

RUnit == [ty |-> "unit"]
RBool(b) == [ty |-> "bool", b |-> b]
RUsize(n) == [ty |-> "usize", n |-> n]
\* a Success value whose Serialize implementation reports an error
ROpaque == [ty |-> "opaque"]

Ok(v) == [t |-> "Ok", v |-> v]
Err(e) == [t |-> "Err", e |-> e]

\* Option<RpcCallResult> / Option<NotificationResult>, and a panic of the callback
None == [t |-> "None"]
Some(r) == [t |-> "Some", r |-> r]
Panic == [t |-> "Panic"]
Unit == [t |-> "Unit"]

\* an application error an implementer's rpc may resolve to
AppError == [code |-> -1, message |-> "application error", data |-> NoneP]

(***************************************************************************)
(* The outcome of one callback: the server afterwards, what it returned,   *)
(* the callbacks of concrete servers it ran (at: position in the chain),   *)
(* and whether ctl.terminate() was called.                                 *)
(***************************************************************************)
Out(srv, ret, calls, term) == [srv |-> srv, ret |-> ret, calls |-> calls, term |-> term]
Invoked(op) == <<[op |-> op, at |-> <<>>]>>

\* a concrete server; the log fields are LogServer's
NewServer(kind) ==
    [kind |-> kind, serial |-> 0, rpc |-> <<>>, notification |-> <<>>, initialized |-> <<>>]

(***************************************************************************)
(* trait Server: the default callbacks.                                    *)
(***************************************************************************)
DefaultRpc(s, method, params) == Out(s, None, Invoked("rpc"), FALSE)
DefaultNotification(s, method, params) == Out(s, None, Invoked("notification"), FALSE)
DefaultInitialized(s) == Out(s, Unit, Invoked("initialized"), FALSE)

(***************************************************************************)
(* Empty: the defaults, and initialized terminates the ctl.                *)
(***************************************************************************)
\* mutant: Empty leaves initialized to the trait default
EmptyInitializedDefault(s) == DefaultInitialized(s)

EmptyInitialized(s) == Out(s, Unit, Invoked("initialized"), TRUE)

(***************************************************************************)
(* tests::LogServer: logs every callback under a running serial.           *)
(***************************************************************************)
LogServerUpdate(s, what) ==
    LET serial == s.serial + 1
    IN  [s EXCEPT !.serial = serial, ![what] = Append(@, serial)]

LogServerRpc(s, method, params) ==
    LET s1 == LogServerUpdate(s, "rpc")
    IN  IF method = "test"
        THEN IF params = NoneP
             THEN Out(s1, Some(Ok(RBool(TRUE))), Invoked("rpc"), FALSE)
             ELSE Out(s1, Panic, Invoked("rpc"), FALSE)
        ELSE Out(s1, None, Invoked("rpc"), FALSE)

LogServerNotification(s, method, params) ==
    LET s1 == LogServerUpdate(s, "notification")
    IN  IF params # NoneP
        THEN Out(s1, Panic, Invoked("notification"), FALSE)
        ELSE IF method = "notification"
             THEN Out(s1, Some(Ok(RUnit)), Invoked("notification"), FALSE)
             ELSE Out(s1, None, Invoked("notification"), FALSE)

LogServerInitialized(s) ==
    Out(LogServerUpdate(s, "initialized"), Unit, Invoked("initialized"), FALSE)

(***************************************************************************)
(* tests::AnotherServer: only rpc, and only with null params.              *)
(***************************************************************************)
AnotherServerRpc(s, method, params) ==
    IF params = NoneP \/ params.v # JNull
    THEN Out(s, Panic, Invoked("rpc"), FALSE)
    ELSE IF method = "another"
         THEN Out(s, Some(Ok(RUsize(42))), Invoked("rpc"), FALSE)
         ELSE Out(s, None, Invoked("rpc"), FALSE)

(***************************************************************************)
(* Two more implementers of the trait, as an application may write them:   *)
(* ErrServer resolves to errors, OpaqueServer to a Success value that      *)
(* does not serialize.                                                     *)
(***************************************************************************)
ErrServerRpc(s, method, params) ==
    IF method = "test"
    THEN Out(s, Some(Err(AppError)), Invoked("rpc"), FALSE)
    ELSE Out(s, None, Invoked("rpc"), FALSE)

ErrServerNotification(s, method, params) ==
    IF method = "notification"
    THEN Out(s, Some(Err(RUnit)), Invoked("notification"), FALSE)
    ELSE Out(s, None, Invoked("notification"), FALSE)

OpaqueServerRpc(s, method, params) ==
    IF method = "another"
    THEN Out(s, Some(Ok(ROpaque)), Invoked("rpc"), FALSE)
    ELSE Out(s, None, Invoked("rpc"), FALSE)

(***************************************************************************)
(* Static dispatch of the three callbacks on a concrete server.            *)
(***************************************************************************)
ServerRpc(s, method, params) ==
    CASE s.kind = "LogServer" -> LogServerRpc(s, method, params)
      [] s.kind = "AnotherServer" -> AnotherServerRpc(s, method, params)
      [] s.kind = "ErrServer" -> ErrServerRpc(s, method, params)
      [] s.kind = "OpaqueServer" -> OpaqueServerRpc(s, method, params)
      [] OTHER -> DefaultRpc(s, method, params)

ServerNotification(s, method, params) ==
    CASE s.kind = "LogServer" -> LogServerNotification(s, method, params)
      [] s.kind = "ErrServer" -> ErrServerNotification(s, method, params)
      [] OTHER -> DefaultNotification(s, method, params)

ServerInitialized(s) ==
    CASE s.kind = "Empty" -> EmptyInitialized(s)
      [] s.kind = "LogServer" -> LogServerInitialized(s)
      [] OTHER -> DefaultInitialized(s)

(***************************************************************************)
(* serde_json::to_value on a Success value.                                *)
(***************************************************************************)
to_value(v) ==
    CASE v.ty = "unit" -> Ok(JNull)
      [] v.ty = "bool" -> Ok(JBool(v.b))
      [] v.ty = "usize" -> Ok(JNumber(v.n))
      [] OTHER -> Err("not convertible")

(***************************************************************************)
(* AbstractServer: boxes the futures; the rpc future maps to_value over    *)
(* the success value when it resolves.                                     *)
(***************************************************************************)
AbstractServerNew(server) == [kind |-> "AbstractServer", inner |-> server]

BoxMapToValue(f) == [t |-> "BoxMap", f |-> f]
BoxFuture(f) == [t |-> "Box", f |-> f]

\* mutant: the success value is converted when rpc is called
AbstractServerRpcEager(s, method, params) ==
    LET r == ServerRpc(s.inner, method, params)
    IN  Out([s EXCEPT !.inner = r.srv],
            IF r.ret.t = "Some"
            THEN IF r.ret.r.t = "Ok" /\ to_value(r.ret.r.v).t = "Err"
                 THEN Panic
                 ELSE Some(BoxMapToValue(r.ret.r))
            ELSE r.ret,
            r.calls, r.term)

AbstractServerRpc(s, method, params) ==
    LET r == ServerRpc(s.inner, method, params)
    IN  Out([s EXCEPT !.inner = r.srv],
            IF r.ret.t = "Some" THEN Some(BoxMapToValue(r.ret.r)) ELSE r.ret,
            r.calls, r.term)

AbstractServerNotification(s, method, params) ==
    LET r == ServerNotification(s.inner, method, params)
    IN  Out([s EXCEPT !.inner = r.srv],
            IF r.ret.t = "Some" THEN Some(BoxFuture(r.ret.r)) ELSE r.ret,
            r.calls, r.term)

\* mutant: the wrapper does not forward initialized
AbstractServerInitializedDropped(s) == Out(s, Unit, <<>>, FALSE)

AbstractServerInitialized(s) ==
    LET r == ServerInitialized(s.inner)
    IN  Out([s EXCEPT !.inner = r.srv], r.ret, r.calls, r.term)

(***************************************************************************)
(* ServerChain.                                                            *)
(***************************************************************************)
ServerChainNew(subservers) == [kind |-> "ServerChain", subs |-> subservers]

\* the closure handed to iter_chain, applied to one subserver
SubCall(sub, op, method, params) ==
    IF op = "rpc"
    THEN AbstractServerRpc(sub, method, params)
    ELSE AbstractServerNotification(sub, method, params)

At(calls, i) == [k \in 1..Len(calls) |-> [calls[k] EXCEPT !.at = <<i>> \o @]]

\* the loop of iter_chain from subserver i on
RECURSIVE IterFrom(_, _, _, _, _)
IterFrom(subs, i, op, method, params) ==
    IF i > Len(subs)
    THEN Out(subs, None, <<>>, FALSE)
    ELSE LET r == SubCall(subs[i], op, method, params)
             subs1 == [subs EXCEPT ![i] = r.srv]
         IN  IF r.ret.t = "Some" \/ r.ret.t = "Panic"
             THEN Out(subs1, r.ret, At(r.calls, i), r.term)
             ELSE LET rest == IterFrom(subs1, i + 1, op, method, params)
                  IN  Out(rest.srv, rest.ret, At(r.calls, i) \o rest.calls,
                          r.term \/ rest.term)

\* mutant: the loop keeps the first Some and goes on to the end of the chain
RECURSIVE IterAllFrom(_, _, _, _, _, _)
IterAllFrom(subs, i, op, method, params, found) ==
    IF i > Len(subs)
    THEN Out(subs, found, <<>>, FALSE)
    ELSE LET r == SubCall(subs[i], op, method, params)
             subs1 == [subs EXCEPT ![i] = r.srv]
         IN  IF r.ret.t = "Panic"
             THEN Out(subs1, r.ret, At(r.calls, i), r.term)
             ELSE LET rest == IterAllFrom(subs1, i + 1, op, method, params,
                                          IF found = None THEN r.ret ELSE found)
                  IN  Out(rest.srv, rest.ret, At(r.calls, i) \o rest.calls,
                          r.term \/ rest.term)

iter_chain_all(subs, op, method, params) == IterAllFrom(subs, 1, op, method, params, None)

\* mutant: the loop misses the first subserver
iter_chain_skip(subs, op, method, params) == IterFrom(subs, 2, op, method, params)

\* mutant: the loop takes a subserver's None for the answer
iter_chain_first(subs, op, method, params) ==
    IF Len(subs) = 0
    THEN Out(subs, None, <<>>, FALSE)
    ELSE LET r == SubCall(subs[1], op, method, params)
         IN  Out([subs EXCEPT ![1] = r.srv], r.ret, At(r.calls, 1), r.term)

iter_chain(subs, op, method, params) == IterFrom(subs, 1, op, method, params)

ServerChainRpc(s, method, params) ==
    LET r == iter_chain(s.subs, "rpc", method, params)
    IN  Out([s EXCEPT !.subs = r.srv], r.ret, r.calls, r.term)

ServerChainNotification(s, method, params) ==
    LET r == iter_chain(s.subs, "notification", method, params)
    IN  Out([s EXCEPT !.subs = r.srv], r.ret, r.calls, r.term)

RECURSIVE InitFrom(_, _)
InitFrom(subs, i) ==
    IF i > Len(subs)
    THEN Out(subs, Unit, <<>>, FALSE)
    ELSE LET r == AbstractServerInitialized(subs[i])
             rest == InitFrom([subs EXCEPT ![i] = r.srv], i + 1)
         IN  Out(rest.srv, Unit, At(r.calls, i) \o rest.calls, r.term \/ rest.term)

\* mutant: initialized stops at the subserver that terminates the ctl
RECURSIVE InitUntilTerminated(_, _)
InitUntilTerminated(subs, i) ==
    IF i > Len(subs)
    THEN Out(subs, Unit, <<>>, FALSE)
    ELSE LET r == AbstractServerInitialized(subs[i])
             subs1 == [subs EXCEPT ![i] = r.srv]
         IN  IF r.term
             THEN Out(subs1, Unit, At(r.calls, i), TRUE)
             ELSE LET rest == InitUntilTerminated(subs1, i + 1)
                  IN  Out(rest.srv, Unit, At(r.calls, i) \o rest.calls, rest.term)

ServerChainInitializedShort(s) ==
    LET r == InitUntilTerminated(s.subs, 1)
    IN  Out([s EXCEPT !.subs = r.srv], r.ret, r.calls, r.term)

ServerChainInitialized(s) ==
    LET r == InitFrom(s.subs, 1)
    IN  Out([s EXCEPT !.subs = r.srv], r.ret, r.calls, r.term)

(***************************************************************************)
(* The callbacks of the constructed server, whatever it is.                *)
(***************************************************************************)
CallRpc(s, method, params) ==
    CASE s.kind = "ServerChain" -> ServerChainRpc(s, method, params)
      [] s.kind = "AbstractServer" -> AbstractServerRpc(s, method, params)
      [] OTHER -> ServerRpc(s, method, params)

CallNotification(s, method, params) ==
    CASE s.kind = "ServerChain" -> ServerChainNotification(s, method, params)
      [] s.kind = "AbstractServer" -> AbstractServerNotification(s, method, params)
      [] OTHER -> ServerNotification(s, method, params)

CallInitialized(s) ==
    CASE s.kind = "ServerChain" -> ServerChainInitialized(s)
      [] s.kind = "AbstractServer" -> AbstractServerInitialized(s)
      [] OTHER -> ServerInitialized(s)

(***************************************************************************)
(* Future::wait on what a callback returned.                               *)
(***************************************************************************)
Resolve(f) ==
    CASE f.t = "BoxMap" ->
            IF f.f.t = "Ok"
            THEN LET j == to_value(f.f.v)
                 IN  IF j.t = "Ok" THEN Ok(j.v) ELSE Panic
            ELSE f.f
      [] f.t = "Box" -> f.f
      [] OTHER -> f

(***************************************************************************)
(* jsonrpc_params!: decoding of the params of a call.                      *)
(*                                                                         *)
(* A JSON object is a function on Keys; a key it does not have maps to     *)
(* JAbsent. A declaration is a sequence of [name, ty].                     *)
(***************************************************************************)
JAbsent == [t |-> "Absent"]
Keys == {"b", "s", "ts", "ov", "x"}

ObjLen(o) == Cardinality({k \in Keys : o[k] # JAbsent})
\* serde_json::Map::get(..).unwrap_or(&null)
GetOrNull(o, name) == IF name \in Keys /\ o[name] # JAbsent THEN o[name] ELSE JNull

\* RpcError::invalid_params(Some(msg))
invalid_params(msg) == [code |-> -32602, message |-> "Invalid params", data |-> SomeP(msg)]

Msg(text) == [text |-> text]
MsgIncompatible(e) == [text |-> "Incompatible type: {}", e |-> e]
MsgWrongNumber(cnt, got) ==
    [text |-> "Wrong number of parameters: expected: {}, got: {}", cnt |-> cnt, got |-> got]

\* typed values the declared types decode to
RString(s) == [ty |-> "String", s |-> s]
RNone == [ty |-> "Option", some |-> FALSE]
RSome(n) == [ty |-> "Option", some |-> TRUE, n |-> n]
RVec(items) == [ty |-> "Vec", items |-> items]
RTestStruct(x) == [ty |-> "TestStruct", x |-> x]

(***************************************************************************)
(* serde_json::from_value::<T>. nullStr: the serde the crate is built      *)
(* with reads null as an empty String (the FIXME of tests::named).         *)
(***************************************************************************)
\* serde::de::Unexpected: a scalar is shown with its value, null, a sequence
\* and a map without
Unexpected(v) ==
    IF v.t \in {"Bool", "Number", "String"} THEN v ELSE [t |-> v.t]

\* the serde errors; none of them carries a line, a column, an index or a path
InvalidType(v, exp) == [what |-> "invalid type", unexpected |-> Unexpected(v), expected |-> exp]
InvalidValue(v, exp) == [what |-> "invalid value", unexpected |-> Unexpected(v), expected |-> exp]
InvalidLength(len, exp) == [what |-> "invalid length", len |-> len, expected |-> exp]
MissingField(field) == [what |-> "missing field", field |-> field]

FromString(v, nullStr) ==
    CASE v.t = "String" -> Ok(RString(v.s))
      [] v.t = "Null" /\ nullStr -> Ok(RString(""))
      [] OTHER -> Err(InvalidType(v, "a string"))

FromI32(v) ==
    IF v.t = "Number" THEN Ok(v.n) ELSE Err(InvalidType(v, "i32"))

from_value(ty, v, nullStr) ==
    CASE ty = "bool" ->
            IF v.t = "Bool" THEN Ok(RBool(v.b)) ELSE Err(InvalidType(v, "a boolean"))
      [] ty = "String" -> FromString(v, nullStr)
      [] ty = "Option<u32>" ->
            CASE v.t = "Null" -> Ok(RNone)
              [] v.t = "Number" ->
                    IF v.n >= 0 THEN Ok(RSome(v.n)) ELSE Err(InvalidValue(v, "u32"))
              [] OTHER -> Err(InvalidType(v, "u32"))
      [] ty = "Vec<String>" ->
            IF v.t = "Array"
            THEN LET bad == {i \in 1..Len(v.a) : FromString(v.a[i], nullStr).t = "Err"}
                 IN  IF bad = {}
                     THEN Ok(RVec([i \in 1..Len(v.a) |-> FromString(v.a[i], nullStr).v.s]))
                     ELSE FromString(v.a[CHOOSE i \in bad : \A k \in bad : i <= k], nullStr)
            ELSE Err(InvalidType(v, "a sequence"))
      [] ty = "TestStruct" ->
            CASE v.t = "Object" ->
                    IF v.o["x"] = JAbsent
                    THEN Err(MissingField("x"))
                    ELSE IF FromI32(v.o["x"]).t = "Ok"
                         THEN Ok(RTestStruct(v.o["x"].n))
                         ELSE FromI32(v.o["x"])
              [] v.t = "Array" ->
                    IF Len(v.a) = 0
                    THEN Err(InvalidLength(0, "struct TestStruct with 1 element"))
                    ELSE IF FromI32(v.a[1]).t = "Err"
                         THEN FromI32(v.a[1])
                         ELSE IF Len(v.a) > 1
                              THEN Err(InvalidLength(Len(v.a), "fewer elements in array"))
                              ELSE Ok(RTestStruct(v.a[1].n))
              [] OTHER -> Err(InvalidType(v, "struct TestStruct"))
      [] OTHER -> Err(InvalidType(v, ty))

(***************************************************************************)
(* The arms of the macro. Each gives Ok(tuple), Err(RpcError) or Panic.    *)
(***************************************************************************)
\* mutant: the length of the array is not looked at
no_params_any_array(value) ==
    CASE value = NoneP -> Ok(RUnit)
      [] value.v.t = "Null" -> Ok(RUnit)
      [] value.v.t = "Array" -> Ok(RUnit)
      [] value.v.t = "Object" /\ ObjLen(value.v.o) = 0 -> Ok(RUnit)
      [] OTHER -> Err(invalid_params(Msg("Expected no params")))

\* ( $value, )
no_params(value) ==
    CASE value = NoneP -> Ok(RUnit)
      [] value.v.t = "Null" -> Ok(RUnit)
      [] value.v.t = "Array" /\ Len(value.v.a) = 0 -> Ok(RUnit)
      [] value.v.t = "Object" /\ ObjLen(value.v.o) = 0 -> Ok(RUnit)
      [] OTHER -> Err(invalid_params(Msg("Expected no params")))

\* ( $value, single $varname : $vartype )
single(val, var, nullStr) ==
    LET r == from_value(var.ty, val, nullStr)
    IN  IF r.t = "Ok" THEN r ELSE Err(invalid_params(MsgIncompatible(r.e)))

\* ( arity ... )
RECURSIVE arity(_)
arity(decl) == IF Len(decl) = 1 THEN 1 ELSE 1 + arity(Tail(decl))

\* the tuple of the decoded elements, built left to right; indexing past the
\* end of the slice panics
RECURSIVE DecodeElems(_, _, _, _, _)
DecodeElems(spl, decl, i, accum, nullStr) ==
    IF i > Len(decl)
    THEN Ok(accum)
    ELSE IF i > Len(spl)
         THEN Panic
         ELSE LET r == single(spl[i], decl[i], nullStr)
              IN  IF r.t = "Err"
                  THEN r
                  ELSE DecodeElems(spl, decl, i + 1, Append(accum, r.v), nullStr)

\* mutant: of several elements that do not decode, the error of the last is given
positional_decode_last(spl, decl, nullStr) ==
    IF Len(spl) < Len(decl) - 1
    THEN Panic
    ELSE LET r == DecodeElems(spl, decl, 1, <<>>, nullStr)
             bad == {i \in 1..Len(decl) :
                        i <= Len(spl) /\ single(spl[i], decl[i], nullStr).t = "Err"}
         IN  IF r.t = "Err"
             THEN single(spl[CHOOSE i \in bad : \A k \in bad : k <= i],
                         decl[CHOOSE i \in bad : \A k \in bad : k <= i], nullStr)
             ELSE r

\* ( $spl, accum (...), positional_decode ... ): the slices &spl[1..] are
\* taken first, then the elements are decoded
positional_decode(spl, decl, nullStr) ==
    IF Len(spl) < Len(decl) - 1
    THEN Panic
    ELSE DecodeElems(spl, decl, 1, <<>>, nullStr)

\* mutant: the number of parameters is not compared with the length of the array
positional_uncounted(value, decl, nullStr) ==
    CASE value = NoneP -> Err(invalid_params(Msg("Expected parameters")))
      [] value # NoneP /\ value.v.t = "Array" ->
            positional_decode(value.v.a, decl, nullStr)
      [] OTHER -> Err(invalid_params(Msg("Expected an array as parameters")))

\* ( $value, positional ... )
positional(value, decl, nullStr) ==
    CASE value = NoneP -> Err(invalid_params(Msg("Expected parameters")))
      [] value # NoneP /\ value.v.t = "Array" ->
            LET cnt == arity(decl)
            IN  IF cnt # Len(value.v.a)
                THEN Err(invalid_params(MsgWrongNumber(cnt, Len(value.v.a))))
                ELSE positional_decode(value.v.a, decl, nullStr)
      [] OTHER -> Err(invalid_params(Msg("Expected an array as parameters")))

RECURSIVE NamedElems(_, _, _, _, _)
NamedElems(map, decl, i, accum, nullStr) ==
    IF i > Len(decl)
    THEN Ok(accum)
    ELSE LET subval == GetOrNull(map, decl[i].name)
             r == single(subval, decl[i], nullStr)
         IN  IF r.t = "Err"
             THEN r
             ELSE NamedElems(map, decl, i + 1, Append(accum, r.v), nullStr)

\* mutant: a key that is no declared name is an error
named_strict(value, decl, nullStr) ==
    CASE value = NoneP -> Err(invalid_params(Msg("Expected parameters")))
      [] value # NoneP /\ value.v.t = "Object" ->
            IF \E k \in Keys :
                  /\ value.v.o[k] # JAbsent
                  /\ \A i \in 1..Len(decl) : decl[i].name # k
            THEN Err(invalid_params(Msg("Unknown parameter")))
            ELSE NamedElems(value.v.o, decl, 1, <<>>, nullStr)
      [] OTHER -> Err(invalid_params(Msg("Expected an object as parameters")))

\* ( $value, named ... )
named(value, decl, nullStr) ==
    CASE value = NoneP -> Err(invalid_params(Msg("Expected parameters")))
      [] value # NoneP /\ value.v.t = "Object" ->
            NamedElems(value.v.o, decl, 1, <<>>, nullStr)
      [] OTHER -> Err(invalid_params(Msg("Expected an object as parameters")))

\* mutant: only arrays are taken, an object is refused like a scalar
decide_array_only(value, decl, nullStr) ==
    CASE value = NoneP -> Err(invalid_params(Msg("Expected parameters")))
      [] value # NoneP /\ value.v.t = "Array" -> positional(value, decl, nullStr)
      [] OTHER -> Err(invalid_params(Msg("Expected an object or an array as parameters")))

\* ( $value, decide ... )
decide(value, decl, nullStr) ==
    CASE value = NoneP -> Err(invalid_params(Msg("Expected parameters")))
      [] value # NoneP /\ value.v.t = "Array" -> positional(value, decl, nullStr)
      [] value # NoneP /\ value.v.t = "Object" -> named(value, decl, nullStr)
      [] OTHER -> Err(invalid_params(Msg("Expected an object or an array as parameters")))

\* mutant: the parameter is not tried directly
single_param_wrapped(value, decl, nullStr) == decide(value, decl, nullStr)

\* mutant: absent params are tried directly as null
single_param_absent_null(value, decl, nullStr) ==
    LET direct == single(IF value = NoneP THEN JNull ELSE value.v, decl[1], nullStr)
    IN  IF direct.t = "Ok"
        THEN Ok(<<direct.v>>)
        ELSE decide(value, decl, nullStr)

\* ( $value, $varname : $vartype ): one parameter, tried directly first
single_param(value, decl, nullStr) ==
    LET direct == IF value = NoneP THEN None ELSE Some(single(value.v, decl[1], nullStr))
    IN  IF direct.t = "Some" /\ direct.r.t = "Ok"
        THEN Ok(<<direct.r.v>>)
        ELSE decide(value, decl, nullStr)

\* ( $value, $( $varname : $vartype ),+ )
multi_param(value, decl, nullStr) == decide(value, decl, nullStr)

(***************************************************************************)
(* The inputs.                                                             *)
(***************************************************************************)
Kinds == {"Empty", "LogServer", "AnotherServer", "ErrServer", "OpaqueServer"}
Methods == {"test", "notification", "another", "wrong"}
DispatchParams == {NoneP, SomeP(JNull)}

SeqsUpTo(S, n) == UNION {[1..k -> S] : k \in 0..n}

Chains == {ServerChainNew(c) :
             c \in SeqsUpTo({AbstractServerNew(NewServer(k)) : k \in Kinds}, MaxChain)}

Subjects ==
    {NewServer(k) : k \in Kinds}
    \cup {AbstractServerNew(NewServer(k)) : k \in Kinds}
    \cup Chains

(***************************************************************************)
(* The inputs of the parameter decoding.                                   *)
(***************************************************************************)
XObject == JObject([k \in Keys |-> IF k = "x" THEN JNumber(42) ELSE JAbsent])

\* the items of arrays and the values of objects
Elems ==
    {JNull, JBool(TRUE), JNumber(42), JString("hello"), JArray(<<JString("hello")>>), XObject}

Arrays == {JArray(a) : a \in SeqsUpTo(Elems, MaxArrayLen)}

Objects ==
    UNION {{JObject([k \in Keys |-> IF k \in K THEN f[k] ELSE JAbsent]) : f \in [K -> Elems]} :
             K \in {K \in SUBSET Keys : Cardinality(K) <= MaxKeys}}

Values == Elems \cup Arrays \cup Objects
ParamValues == {NoneP} \cup {SomeP(v) : v \in Values}

Var(name, ty) == [name |-> name, ty |-> ty]
\* the declarations of the tests, one with an optional first, and one with the
\* same type twice
BoolStr == <<Var("b", "bool"), Var("s", "String")>>
ArrDecl == <<Var("arr", "Vec<String>")>>
TsDecl == <<Var("ts", "TestStruct")>>
OvDecl == <<Var("ov", "Option<u32>")>>
OvBool == <<Var("ov", "Option<u32>"), Var("b", "bool")>>
BoolBool == <<Var("b", "bool"), Var("x", "bool")>>
Decls == {BoolStr, ArrDecl, TsDecl, OvDecl, OvBool, BoolBool}

(***************************************************************************)
(* State: the constructed server, the ctl, and the last callback made;     *)
(* and the last decoding of params.                                        *)
(***************************************************************************)
VARIABLES
    server,      \* the constructed server
    before,      \* the server as it was when the last callback was made
    terminated,  \* ServerCtl: terminate() has been called
    termBefore,  \* terminated, when the last callback was made
    last,        \* the last callback: op, method, params
    ret,         \* what it returned
    calls,       \* the callbacks of concrete servers it ran, in order
    reply,       \* what the returned future resolved to, once waited for
    ncalls,      \* callbacks made so far
    panicked,    \* a callback or a future panicked
    nullStr,     \* the serde of the build reads null as an empty String
    arm,         \* the arm of jsonrpc_params! last used
    value,       \* the params it was given
    decl,        \* the parameters it declared
    result,      \* what it gave
    incoming,    \* examples/time_server2: the messages still to come from the client
    written      \* examples/time_server2: the frames handed to the socket's sink

svars == <<server, before, terminated, termBefore, last, ret, calls, reply, ncalls, panicked>>
pvars == <<nullStr, arm, value, decl, result>>
evars == <<incoming, written>>
vars == <<svars, pvars, evars>>

NoCall == [op |-> "none", method |-> "", params |-> NoneP]
NoReply == [t |-> "NoReply"]

NoDecoding ==
    /\ arm = "none"
    /\ decl = <<>>
    /\ result = Unit

NoConnection ==
    /\ incoming = <<>>
    /\ written = <<>>

Init ==
    /\ server \in Subjects
    /\ before = server
    /\ terminated = FALSE
    /\ termBefore = FALSE
    /\ last = NoCall
    /\ ret = Unit
    /\ calls = <<>>
    /\ reply = NoReply
    /\ ncalls = 0
    /\ panicked = FALSE
    /\ nullStr = FALSE
    /\ value = NoneP
    /\ NoDecoding
    /\ NoConnection

Apply(r, op, method, params) ==
    /\ before' = server
    /\ termBefore' = terminated
    /\ server' = r.srv
    /\ terminated' = (terminated \/ r.term)
    /\ last' = [op |-> op, method |-> method, params |-> params]
    /\ ret' = r.ret
    /\ calls' = r.calls
    /\ reply' = NoReply
    /\ ncalls' = ncalls + 1
    /\ panicked' = (r.ret = Panic)
    /\ UNCHANGED <<pvars, evars>>

Rpc ==
    /\ ~panicked
    /\ ncalls < MaxCalls
    /\ \E method \in Methods, params \in DispatchParams :
          Apply(CallRpc(server, method, params), "rpc", method, params)

Notification ==
    /\ ~panicked
    /\ ncalls < MaxCalls
    /\ \E method \in Methods, params \in DispatchParams :
          Apply(CallNotification(server, method, params), "notification", method, params)

Initialized ==
    /\ ~panicked
    /\ ncalls < MaxCalls
    /\ Apply(CallInitialized(server), "initialized", "", NoneP)

Wait ==
    /\ ~panicked
    /\ ret.t = "Some"
    /\ reply = NoReply
    /\ reply' = Resolve(ret.r)
    /\ panicked' = (Resolve(ret.r) = Panic)
    /\ UNCHANGED <<server, before, terminated, termBefore, last, ret, calls, ncalls>>
    /\ UNCHANGED <<pvars, evars>>

Next == Rpc \/ Notification \/ Initialized \/ Wait

Spec == Init /\ [][Next]_vars

(***************************************************************************)
(* The parameter decoding on its own: a handler decodes the params of      *)
(* the call it got (value) with one arm of the macro.                      *)
(***************************************************************************)
ParamsInit ==
    /\ server = NewServer("Empty")
    /\ before = server
    /\ terminated = FALSE
    /\ termBefore = FALSE
    /\ last = NoCall
    /\ ret = Unit
    /\ calls = <<>>
    /\ reply = NoReply
    /\ ncalls = 0
    /\ panicked = FALSE
    /\ nullStr \in BOOLEAN
    /\ value \in ParamValues
    /\ NoDecoding
    /\ NoConnection

Decoded(a, d, r) ==
    /\ arm = "none"
    /\ arm' = a
    /\ decl' = d
    /\ result' = r
    /\ UNCHANGED <<svars, nullStr, value, evars>>

ExpectNoParams ==
    Decoded("no_params", <<>>, no_params(value))

Single ==
    /\ value # NoneP
    /\ \E d \in {d \in Decls : Len(d) = 1} :
          Decoded("single", d, single(value.v, d[1], nullStr))

Positional ==
    \E d \in Decls : Decoded("positional", d, positional(value, d, nullStr))

Named ==
    \E d \in Decls : Decoded("named", d, named(value, d, nullStr))

Decide ==
    \E d \in Decls : Decoded("decide", d, decide(value, d, nullStr))

SingleParam ==
    \E d \in {d \in Decls : Len(d) = 1} :
        Decoded("single_param", d, single_param(value, d, nullStr))

MultiParam ==
    \E d \in {d \in Decls : Len(d) > 1} :
        Decoded("multi_param", d, multi_param(value, d, nullStr))

ParamsNext ==
    ExpectNoParams \/ Single \/ Positional \/ Named \/ Decide \/ SingleParam \/ MultiParam

ParamsSpec == ParamsInit /\ [][ParamsNext]_vars

(***************************************************************************)
(* examples/time_server2.rs: each connection maps every item of the        *)
(* socket's stream to an empty Batch and forwards it to the socket's sink. *)
(***************************************************************************)
MsgRequest(method, id) == [t |-> "Request", method |-> method, id |-> id]
MsgNotification(method) == [t |-> "Notification", method |-> method]
MsgBatch(entries) == [t |-> "Batch", entries |-> entries]
\* a line the codec could not decode
Broken == [t |-> "Broken"]

Frames ==
    {MsgRequest("echo", 1), MsgRequest("time", 2),
     MsgNotification("echo"), MsgNotification("ping"), Broken}

ExampleInit ==
    /\ server = NewServer("Empty")
    /\ before = server
    /\ terminated = FALSE
    /\ termBefore = FALSE
    /\ last = NoCall
    /\ ret = Unit
    /\ calls = <<>>
    /\ reply = NoReply
    /\ ncalls = 0
    /\ panicked = FALSE
    /\ nullStr = FALSE
    /\ value = NoneP
    /\ NoDecoding
    /\ incoming \in SeqsUpTo(Frames, MaxFrames)
    /\ written = <<>>

\* r.map(|message| Message::Batch(vec![])).forward(w), for one message;
\* to: the message the frame was written for
Forward ==
    /\ incoming # <<>>
    /\ written' = Append(written, [frame |-> MsgBatch(<<>>), to |-> Head(incoming)])
    /\ incoming' = Tail(incoming)
    /\ UNCHANGED <<svars, pvars>>

ExampleNext == Forward

ExampleSpec == ExampleInit /\ [][ExampleNext]_vars

(***************************************************************************)
(* Properties of the servers.                                              *)
(***************************************************************************)
ChainDispatch == before.kind = "ServerChain" /\ last.op \in {"rpc", "notification"}
ChainLen == Len(before.subs)

\* what subserver i of the chain answers, asked on its own
MemberRet(i) ==
    IF last.op = "rpc"
    THEN AbstractServerRpc(before.subs[i], last.method, last.params).ret
    ELSE AbstractServerNotification(before.subs[i], last.method, last.params).ret

\* what subserver i answers to the same method and params through the other callback
OtherRet(i) ==
    IF last.op = "rpc"
    THEN AbstractServerNotification(before.subs[i], last.method, last.params).ret
    ELSE AbstractServerRpc(before.subs[i], last.method, last.params).ret

IsFirstSome(i) ==
    /\ MemberRet(i).t = "Some"
    /\ \A j \in 1..(i - 1) : MemberRet(j).t # "Some"

\* C1: a ServerChain's rpc and notification, when they return, return the result of
\* the first subserver in list order that returns Some; a subserver returning None
\* does not decide the result while a later one returns Some.
C1_FirstSome ==
    (ChainDispatch /\ ret # Panic) =>
        \A i \in 1..ChainLen : IsFirstSome(i) => ret = MemberRet(i)

\* a None before the answering subserver, and a later subserver with another answer
C1_Witness ==
    /\ ChainDispatch
    /\ \E i, j, k \in 1..ChainLen :
          /\ i < j /\ j < k
          /\ MemberRet(i) = None
          /\ MemberRet(j).t = "Some"
          /\ MemberRet(k).t = "Some"
          /\ MemberRet(k) # MemberRet(j)
          /\ ret = MemberRet(j)

\* C2: a ServerChain's rpc and notification return None exactly when every
\* subserver returns None through that callback (always for the empty chain),
\* whatever the subservers answer through the other callback.
C2_NoneIffAllNone ==
    ChainDispatch =>
        /\ (ret = None) <=> (\A i \in 1..ChainLen : MemberRet(i) = None)
        /\ (ChainLen = 0) => (ret = None)

\* None from the chain for a method a subserver knows through the other callback
C2_Witness ==
    /\ ChainDispatch
    /\ ret = None
    /\ ChainLen >= 2
    /\ \E i \in 1..ChainLen : OtherRet(i).t = "Some"

InitCalls(n) == [i \in 1..n |-> [op |-> "initialized", at |-> <<i>>]]

\* C3: ServerChain::initialized runs initialized of every subserver once, in list
\* order, whatever the earlier ones did: an Empty in the chain terminates the ctl
\* and the subservers after it are still initialized.
C3_InitializedAll ==
    (before.kind = "ServerChain" /\ last.op = "initialized") =>
        /\ calls = InitCalls(ChainLen)
        /\ (\E i \in 1..ChainLen : before.subs[i].inner.kind = "Empty") => terminated
        /\ \A i \in 1..ChainLen :
              server.subs[i] = AbstractServerInitialized(before.subs[i]).srv

\* an Empty ahead of a LogServer whose log got the call
C3_Witness ==
    /\ before.kind = "ServerChain"
    /\ last.op = "initialized"
    /\ terminated
    /\ \E i, j \in 1..ChainLen :
          /\ i < j
          /\ before.subs[i].inner.kind = "Empty"
          /\ before.subs[j].inner.kind = "LogServer"
          /\ Len(server.subs[j].inner.initialized) = Len(before.subs[j].inner.initialized) + 1

\* a chain [A, B] asked for a method A does not know and B knows
ChainAB ==
    /\ before.kind = "ServerChain"
    /\ last.op = "rpc"
    /\ ChainLen = 2
    /\ MemberRet(1) = None
    /\ MemberRet(2).t = "Some"

\* C4 as claimed: dispatching B's method through [A, B] invokes only B.
C4_OnlyB ==
    ChainAB => (calls = <<[op |-> "rpc", at |-> <<2>>]>> /\ ret = MemberRet(2))

\* C4: dispatching B's method through [A, B] invokes A's rpc, which returns None,
\* then B's rpc, and returns B's result.
C4_AThenB ==
    ChainAB =>
        /\ calls = <<[op |-> "rpc", at |-> <<1>>], [op |-> "rpc", at |-> <<2>>]>>
        /\ ret = MemberRet(2)

\* [LogServer, AnotherServer] asked for "another": the LogServer logged the call
C4_Witness ==
    /\ ChainAB
    /\ before.subs[1].inner.kind = "LogServer"
    /\ before.subs[2].inner.kind = "AnotherServer"
    /\ last.method = "another"
    /\ server.subs[1].inner.rpc # before.subs[1].inner.rpc

\* the servers whose callback is the trait's default
DefaultsRpc == {"Empty"}
DefaultsNotification == {"Empty", "AnotherServer", "OpaqueServer"}

\* C5: rpc and notification of Empty, and of any server leaving them to the trait
\* defaults, return None and do not terminate the ctl; Empty::initialized
\* terminates it, and it is not terminated before.
C5_Empty ==
    /\ (before.kind \in DefaultsRpc /\ last.op = "rpc") =>
          (ret = None /\ terminated = termBefore)
    /\ (before.kind \in DefaultsNotification /\ last.op = "notification") =>
          (ret = None /\ terminated = termBefore)
    /\ (before.kind = "Empty" /\ last.op = "initialized") => terminated
    /\ (server.kind = "Empty" /\ ncalls = 0) => ~terminated

\* Empty asked twice: a call that left the ctl alone, then initialized
C5_Witness ==
    /\ before.kind = "Empty"
    /\ last.op = "initialized"
    /\ ncalls = 2
    /\ ~termBefore
    /\ terminated

\* what the wrapped server does with the last callback
InnerOut ==
    CASE last.op = "rpc" -> ServerRpc(before.inner, last.method, last.params)
      [] last.op = "notification" ->
            ServerNotification(before.inner, last.method, last.params)
      [] OTHER -> ServerInitialized(before.inner)

\* the JSON a Success value stands for
JsonOf(v) ==
    CASE v = RUnit -> JNull
      [] v = RBool(TRUE) -> JBool(TRUE)
      [] v = RUsize(42) -> JNumber(42)

\* C6: an AbstractServer behaves as the server it wraps: None exactly when the
\* inner callback gives None; a success resolves to its JSON, an RpcError to
\* itself; each wrapper callback runs the inner server's same callback once and
\* nothing else, so the inner server sees the calls in the order they were made.
C6_AbstractEquivalent ==
    (before.kind = "AbstractServer" /\ last.op # "none") =>
        /\ server.inner = InnerOut.srv
        /\ calls = <<[op |-> last.op, at |-> <<>>]>>
        /\ terminated = (termBefore \/ InnerOut.term)
        /\ (ret = None) <=> (InnerOut.ret = None)
        /\ (ret.t = "Some") <=> (InnerOut.ret.t = "Some")
        /\ (InnerOut.ret.t = "Some" /\ reply # NoReply /\ reply # Panic) =>
              IF InnerOut.ret.r.t = "Ok" /\ last.op = "rpc"
              THEN reply = Ok(JsonOf(InnerOut.ret.r.v))
              ELSE reply = InnerOut.ret.r

\* a wrapped LogServer called twice, the second answer resolved to JSON true
C6_Witness ==
    /\ before.kind = "AbstractServer"
    /\ before.inner.kind = "LogServer"
    /\ ncalls = 2
    /\ last.op = "rpc"
    /\ server.inner.serial = 2
    /\ reply = Ok(JBool(TRUE))

\* the subserver i of the chain after answering on its own
MemberAfter(i) ==
    IF last.op = "rpc"
    THEN AbstractServerRpc(before.subs[i], last.method, last.params).srv
    ELSE AbstractServerNotification(before.subs[i], last.method, last.params).srv

\* the position of the first subserver returning Some, the length of the chain if none does
Stop ==
    IF \E i \in 1..ChainLen : IsFirstSome(i)
    THEN CHOOSE i \in 1..ChainLen : IsFirstSome(i)
    ELSE ChainLen

\* C16: one rpc or notification of a ServerChain that returns has invoked the
\* subservers up to the first one returning Some once each, in list order, and
\* none after it; all of them when none returns Some.
C16_InvokedUpToFirstSome ==
    (ChainDispatch /\ ret # Panic) =>
        /\ calls = [i \in 1..Stop |-> [op |-> last.op, at |-> <<i>>]]
        /\ \A i \in 1..ChainLen :
              server.subs[i] = IF i <= Stop THEN MemberAfter(i) ELSE before.subs[i]

\* [LogServer, X, LogServer] answered by X: the first LogServer logged the
\* call, the last one did not
C16_Witness ==
    /\ ChainDispatch
    /\ ret.t = "Some"
    /\ ChainLen = 3
    /\ Stop = 2
    /\ before.subs[1].inner.kind = "LogServer"
    /\ before.subs[3].inner.kind = "LogServer"
    /\ server.subs[1].inner.serial = before.subs[1].inner.serial + 1
    /\ server.subs[3] = before.subs[3]

\* the wrapped server answered the last rpc with a success that does not serialize
OpaqueSuccess ==
    /\ before.kind = "AbstractServer"
    /\ last.op = "rpc"
    /\ InnerOut.ret = Some(Ok(ROpaque))

\* C17: when the success value of the wrapped server does not convert to JSON,
\* AbstractServer::rpc itself returns a future without panicking, and that
\* future never resolves to a value or an RpcError: it panics when waited for.
C17_PanicOnResolve ==
    OpaqueSuccess =>
        /\ ret.t = "Some"
        /\ (reply = NoReply) => ~panicked
        /\ (reply # NoReply) => (reply = Panic /\ panicked)

\* the future of a wrapped OpaqueServer waited for
C17_Witness ==
    /\ OpaqueSuccess
    /\ before.inner.kind = "OpaqueServer"
    /\ reply = Panic
    /\ panicked

(***************************************************************************)
(* Properties of the parameter decoding.                                   *)
(***************************************************************************)
IsInvalidParams(r) == r.t = "Err" /\ r.e.code = -32602

EmptyObject == JObject([k \in Keys |-> JAbsent])
NoParamValues == {NoneP, SomeP(JNull), SomeP(JArray(<<>>)), SomeP(EmptyObject)}

\* C7: the no-params arm succeeds exactly for absent params, null, the empty
\* array and the empty object, and gives invalid_params for anything else.
C7_NoParams ==
    (arm = "no_params") =>
        IF value \in NoParamValues
        THEN result = Ok(RUnit)
        ELSE IsInvalidParams(result)

\* a non-empty array refused
C7_Witness ==
    /\ arm = "no_params"
    /\ value # NoneP
    /\ value.v.t = "Array"
    /\ Len(value.v.a) = 2
    /\ IsInvalidParams(result)

IsArray(v) == v # NoneP /\ v.v.t = "Array"
IsObject(v) == v # NoneP /\ v.v.t = "Object"

\* the decoding of element i of the array into the type of parameter i
ElemDecoded(i) == from_value(decl[i].ty, value.v.a[i], nullStr)

PositionalFits ==
    /\ IsArray(value)
    /\ Len(value.v.a) = Len(decl)
    /\ \A i \in 1..Len(decl) : ElemDecoded(i).t = "Ok"

\* C8: positional decoding of N parameters succeeds exactly for an array of N
\* elements each decoding into its parameter's type, and then gives the decoded
\* elements in order; anything else (no array, a shorter or longer array, an
\* element of another type) gives invalid_params.
C8_Positional ==
    (arm = "positional") =>
        IF PositionalFits
        THEN result = Ok([i \in 1..Len(decl) |-> ElemDecoded(i).v])
        ELSE IsInvalidParams(result)

\* [true, "hello"] decoded into (bool, String)
C8_Witness ==
    /\ arm = "positional"
    /\ decl = BoolStr
    /\ value = SomeP(JArray(<<JBool(TRUE), JString("hello")>>))
    /\ result = Ok(<<RBool(TRUE), RString("hello")>>)

IsAbsent(name) == name \notin Keys \/ value.v.o[name] = JAbsent

\* C9 as claimed: in named decoding a declared name the object does not have
\* decodes to the empty value if its type is optional, and makes the decoding
\* fail with invalid_params if its type is anything else.
C9_AbsentName ==
    (arm = "named" /\ IsObject(value)) =>
        \A i \in 1..Len(decl) :
            IsAbsent(decl[i].name) =>
                IF decl[i].ty = "Option<u32>"
                THEN /\ result.t = "Ok" => result.v[i] = RNone
                     /\ Len(decl) = 1 => result.t = "Ok"
                ELSE IsInvalidParams(result)

\* C10: named decoding does not look at keys that are no declared name: putting
\* in, changing or taking out such a key leaves the result as it is.
C10_ExtraKeysIgnored ==
    (arm = "named" /\ IsObject(value)) =>
        \A k \in Keys \ {decl[i].name : i \in 1..Len(decl)} :
            \A e \in Elems \cup {JAbsent} :
                named(SomeP(JObject([value.v.o EXCEPT ![k] = e])), decl, nullStr) = result

\* {"b": true, "s": "hello", "x": 42} decoded into (bool, String)
C10_Witness ==
    /\ arm = "named"
    /\ decl = BoolStr
    /\ IsObject(value)
    /\ value.v.o["x"] = JNumber(42)
    /\ result = Ok(<<RBool(TRUE), RString("hello")>>)

\* C11: with two or more declared parameters the decoding gives the positional
\* result for an array, the named result for an object, and invalid_params for
\* any other params value (null, a boolean, a number, a string).
C11_Decide ==
    (arm = "multi_param" /\ value # NoneP) =>
        CASE value.v.t = "Array" -> result = positional(value, decl, nullStr)
          [] value.v.t = "Object" -> result = named(value, decl, nullStr)
          [] OTHER -> IsInvalidParams(result)

\* {"b": true, "s": "hello"} decoded into (bool, String) by its names
C11_Witness ==
    /\ arm = "multi_param"
    /\ decl = BoolStr
    /\ IsObject(value)
    /\ result = Ok(<<RBool(TRUE), RString("hello")>>)

\* the params decoded as they are into the type of the one parameter
Direct == from_value(decl[1].ty, value.v, nullStr)

\* C12: with one declared parameter the params are first decoded directly into
\* its type: if that succeeds its value is the result, whatever decoding the
\* params as an array or an object would give; if it fails its error is dropped
\* and the result is that of the decide arm, so the parameter may come bare, in
\* a one-element array, or in an object under its name.
C12_SingleParam ==
    (arm = "single_param") =>
        IF value # NoneP /\ Direct.t = "Ok"
        THEN result = Ok(<<Direct.v>>)
        ELSE result = decide(value, decl, nullStr)

\* [42] decoded directly into TestStruct, where positional decoding fails
C12_Witness ==
    /\ arm = "single_param"
    /\ decl = TsDecl
    /\ value = SomeP(JArray(<<JNumber(42)>>))
    /\ result = Ok(<<RTestStruct(42)>>)
    /\ IsInvalidParams(decide(value, decl, nullStr))

\* C13: whatever the arm and the params, a decoding that fails gives an RpcError
\* invalid_params and never panics; the positional arm never indexes past the
\* end of the array.
C13_NoPanic ==
    (arm # "none") => (result.t = "Ok" \/ IsInvalidParams(result))

\* an array shorter than the declaration, refused by the positional arm
C13_Witness ==
    /\ arm = "positional"
    /\ IsArray(value)
    /\ Len(value.v.a) < Len(decl)
    /\ IsInvalidParams(result)

\* C14: every arm that declares a parameter gives invalid_params for absent
\* params, also when the parameter is optional or when null params decode.
C14_AbsentParams ==
    (value = NoneP /\ arm \in {"positional", "named", "decide", "single_param", "multi_param"}) =>
        IsInvalidParams(result)

\* absent params refused for an optional parameter that null params satisfy
C14_Witness ==
    /\ value = NoneP
    /\ arm = "single_param"
    /\ decl = OvDecl
    /\ IsInvalidParams(result)
    /\ single_param(SomeP(JNull), decl, nullStr) = Ok(<<RNone>>)

\* the first element of the array a that does not decode into its parameter of
\* the declaration d; 0 if every element decodes
FirstBad(a, d) ==
    LET bad == {i \in 1..Len(d) : from_value(d[i].ty, a[i], nullStr).t = "Err"}
    IN  IF bad = {} THEN 0 ELSE CHOOSE i \in bad : \A k \in bad : i <= k

\* the arrays of the length of the declaration
Fitting == {a \in SeqsUpTo(Elems, MaxArrayLen) : Len(a) = Len(decl)}

\* an array of the right length with an element that does not decode
ElementMismatch ==
    /\ arm = "positional"
    /\ IsArray(value)
    /\ Len(value.v.a) = Len(decl)
    /\ FirstBad(value.v.a, decl) > 0

\* C18 as claimed: the invalid_params error of positional decoding names the
\* offending position, so the error of an element mismatch tells at which
\* position the mismatch is: no array whose first mismatching element is at
\* another position gives the same error.
C18_NamesPosition ==
    ElementMismatch =>
        /\ IsInvalidParams(result)
        /\ \A a \in Fitting :
              FirstBad(a, decl) \notin {0, FirstBad(value.v.a, decl)} =>
                  positional(SomeP(JArray(a)), decl, nullStr) # result

\* C18: in positional decoding an array of another length than the number of
\* parameters gives invalid_params with the expected and the actual number, and
\* an element mismatch gives invalid_params with the serde error of the first
\* mismatching element in array order, which tells the unexpected value and the
\* expected type and nothing about the position.
C18_FirstMismatch ==
    (arm = "positional" /\ IsArray(value)) =>
        IF Len(value.v.a) # Len(decl)
        THEN result = Err(invalid_params(MsgWrongNumber(Len(decl), Len(value.v.a))))
        ELSE FirstBad(value.v.a, decl) > 0 =>
                result = Err(invalid_params(MsgIncompatible(
                                ElemDecoded(FirstBad(value.v.a, decl)).e)))

\* [42, true] decoded into (bool, String): both elements mismatch, each with
\* an error of its own, and the error of the 42 is given
C18_Witness ==
    /\ arm = "positional"
    /\ decl = BoolStr
    /\ value = SomeP(JArray(<<JNumber(42), JBool(TRUE)>>))
    /\ ElemDecoded(2).t = "Err"
    /\ ElemDecoded(2).e # ElemDecoded(1).e
    /\ result = Err(invalid_params(MsgIncompatible(InvalidType(JNumber(42), "a boolean"))))

(***************************************************************************)
(* Properties of the connection of the example server.                     *)
(***************************************************************************)
\* C15: no frame is ever written to the client in reply to a Notification it
\* sent, whether or not its method is known.
C15_NoReplyToNotification ==
    \A i \in 1..Len(written) : written[i].to.t # "Notification"

====
